---- MODULE Spec2Model ----
(***************************************************************************)
(* Cache service with in-process fallback (backend/src/utils/cache.js) and *)
(* the read-through item listing built on it (backend/src/routes/items.js).*)
(*                                                                         *)
(* Strings that the code inspects character by character (cache keys) are  *)
(* sequences of one-character strings.  Time is Date.now() in milliseconds.*)
(***************************************************************************)
EXTENDS Integers, Sequences, FiniteSets, TLC

\* ------------------------------------------------------------------ bounds
\* Largest TTL (seconds) a caller of setCache passes in the cache-level runs.
MaxTtl == 2
\* Date.now() is not advanced past this many seconds.
MaxSeconds == 2
\* Number of cache operations a cache-level run performs.
MaxOps == 3

\* ------------------------------------------------------- program constants
CACHE_TTL == 60

\* ------------------------------------------------------------------ values
\* null / undefined as seen by a caller
Null == [null |-> TRUE]
\* payloads callers store in the cache-level runs (JSON-representable)
Values == {[val |-> "v1"], [val |-> "v2"]}
TTLs == 1..MaxTtl

\* keys the cache-level runs store under, and keys they invalidate
StoreKeys == { <<"a","b">>, <<"a","?">>, <<"b">> }
InvalidateKeys == { <<"a","*">>, <<"a","?","*">>, <<"*","b","*">>, <<"*">>,
                    <<"a","b">>, <<"b">> }
\* the same for the runs that vary values, TTLs and time
TtlKeys == { <<"a","b">>, <<"b">> }
TtlInvalidateKeys == { <<"a","*">>, <<"b">> }

EmptyMap == [k \in {} |-> Null]
MapPut(m, k, e) == [x \in (DOMAIN m) \cup {k} |-> IF x = k THEN e ELSE m[x]]
MapDel(m, ks) == [x \in (DOMAIN m) \ ks |-> m[x]]

\* ----------------------------------------------------------- string helpers
\* String.prototype.endsWith("*")
EndsWithStar(key) == Len(key) > 0 /\ key[Len(key)] = "*"
\* key.slice(0, -1)
SliceOffLast(key) == SubSeq(key, 1, Len(key) - 1)
\* String.prototype.startsWith(prefix)
StartsWith(k, prefix) ==
    /\ Len(prefix) <= Len(k)
    /\ SubSeq(k, 1, Len(prefix)) = prefix

\* Redis KEYS glob matching of pattern p against string s, for the
\* metacharacters '*' (any run of characters) and '?' (any one character).
RECURSIVE GlobMatch(_, _)
GlobMatch(p, s) ==
    IF Len(p) = 0 THEN Len(s) = 0
    ELSE IF Head(p) = "*"
         THEN \E i \in 0..Len(s) : GlobMatch(Tail(p), SubSeq(s, i + 1, Len(s)))
    ELSE IF Len(s) = 0 THEN FALSE
    ELSE IF Head(p) = "?" THEN GlobMatch(Tail(p), Tail(s))
    ELSE Head(p) = Head(s) /\ GlobMatch(Tail(p), Tail(s))

\* ------------------------------------------------------------ serialization
\* JSON.stringify(value): the text stored in the remote store
JSONstringify(v) == [json |-> v]
Garbled == [garbled |-> TRUE]
\* JSON.parse(data): throws on text that is not JSON
JSONparse(d) ==
    IF "json" \in DOMAIN d THEN [threw |-> FALSE, val |-> d.json]
    ELSE [threw |-> TRUE, val |-> Null]

\* ------------------------------------------------------- remote store (Redis)
\* an entry of the remote store is live until its expiry
RedisLive(rs, t) == {k \in DOMAIN rs : t < rs[k].expiry}
\* GET key
RedisGet(rs, k, t) == IF k \in RedisLive(rs, t) THEN rs[k].data ELSE Null
\* SETEX key ttl data
RedisSetEx(rs, k, ttl, data, t) == MapPut(rs, k, [data |-> data, expiry |-> t + ttl * 1000])
\* KEYS pattern
RedisKeys(rs, pattern, t) == {k \in RedisLive(rs, t) : GlobMatch(pattern, k)}
\* DEL key [key ...]
RedisDel(rs, ks) == MapDel(rs, ks)
\* FLUSHDB
RedisFlushDb(rs) == EmptyMap
\* the server drops the entries whose TTL has run out
RedisExpire(rs, t) == MapDel(rs, {k \in DOMAIN rs : rs[k].expiry <= t})

\* --------------------------------------------------- memory tier primitives
\* (variant: the expiry instant itself still counts as live)
MemLiveInclusive(mem, k, t) == k \in DOMAIN mem /\ t <= mem[k].expiry
\* an entry of memoryCache that getCache would still return at time t
MemLive(mem, k, t) == k \in DOMAIN mem /\ t < mem[k].expiry
\* entries of memoryCache whose key starts with prefix
MemMatching(mem, prefix) == {k \in DOMAIN mem : StartsWith(k, prefix)}

\* ------------------------------------------------------------ cache service
\* Each operation is given the module state (redisAvailable, client,
\* memoryCache, the remote store), its arguments, Date.now() and the outcome
\* of the remote call(s) it makes, and yields what it returns or throws and
\* the state it leaves.  The ...Try operators are the try blocks; the
\* operators named after the functions add the catch clause.

\* (variant: a lookup on the in-process map also drops every other entry
\* whose expiry has passed)
getCacheTrySweeping(avail, cl, mem, rs, key, t, remote) ==
    IF avail /\ cl
    THEN [threw |-> remote # "ok", ret |-> Null, mem |-> mem]
    ELSE IF MemLive(mem, key, t)
         THEN [threw |-> FALSE, ret |-> mem[key].value,
               mem |-> MapDel(mem, {k \in DOMAIN mem : ~MemLive(mem, k, t)})]
         ELSE [threw |-> FALSE, ret |-> Null,
               mem |-> MapDel(mem, {k \in DOMAIN mem : ~MemLive(mem, k, t)})]

\* body of the try block of getCache; remote: "ok", "reject" (client.get
\* rejects) or "garbled" (the reply is not JSON text)
getCacheTry(avail, cl, mem, rs, key, t, remote) ==
    IF avail /\ cl
    THEN IF remote = "reject"
         THEN [threw |-> TRUE, ret |-> Null, mem |-> mem]
         ELSE LET data == IF remote = "garbled" THEN Garbled ELSE RedisGet(rs, key, t)
              IN  IF data = Null
                  THEN [threw |-> FALSE, ret |-> Null, mem |-> mem]
                  ELSE [threw |-> JSONparse(data).threw,
                        ret   |-> JSONparse(data).val,
                        mem   |-> mem]
    ELSE IF MemLive(mem, key, t)
         THEN [threw |-> FALSE, ret |-> mem[key].value, mem |-> mem]
         ELSE [threw |-> FALSE, ret |-> Null, mem |-> MapDel(mem, {key})]

\* (variant: a failed remote read is answered from the in-process map)
getCacheReadFallback(avail, cl, mem, rs, key, t, remote) ==
    LET r == getCacheTry(avail, cl, mem, rs, key, t, remote)
    IN  IF r.threw THEN getCacheTry(FALSE, cl, mem, rs, key, t, remote) ELSE r

getCache(avail, cl, mem, rs, key, t, remote) ==
    LET r == getCacheTry(avail, cl, mem, rs, key, t, remote)
    IN  IF r.threw THEN [threw |-> FALSE, ret |-> Null, mem |-> mem] ELSE r

\* body of the try block of setCache; remote: "ok" or "reject" (client.setEx
\* rejects; the server also rejects a ttl below 1)
setCacheTry(avail, cl, mem, rs, key, value, ttl, t, remote) ==
    IF avail /\ cl
    THEN IF remote = "reject" \/ ttl < 1
         THEN [threw |-> TRUE, mem |-> mem, rs |-> rs]
         ELSE [threw |-> FALSE, mem |-> mem,
               rs |-> RedisSetEx(rs, key, ttl, JSONstringify(value), t)]
    ELSE [threw |-> FALSE,
          mem |-> MapPut(mem, key, [value |-> value, expiry |-> t + ttl * 1000]),
          rs |-> rs]

\* (variant: no catch clause)
setCacheUncaught(avail, cl, mem, rs, key, value, ttl, t, remote) ==
    setCacheTry(avail, cl, mem, rs, key, value, ttl, t, remote)

\* (variant: the write is dropped)
setCacheDropped(avail, cl, mem, rs, key, value, ttl, t, remote) ==
    [threw |-> FALSE, mem |-> mem, rs |-> rs]

setCache(avail, cl, mem, rs, key, value, ttl, t, remote) ==
    LET r == setCacheTry(avail, cl, mem, rs, key, value, ttl, t, remote)
    IN  IF r.threw THEN [threw |-> FALSE, mem |-> mem, rs |-> rs] ELSE r

\* (variant: a single key is deleted from the in-process map whichever tier
\* is in use)
invalidateCacheTryBothTiers(avail, cl, mem, rs, key, t, remote) ==
    IF EndsWithStar(key)
    THEN [threw |-> avail /\ cl /\ remote # "ok",
          mem |-> IF avail /\ cl THEN mem
                  ELSE MapDel(mem, MemMatching(mem, SliceOffLast(key))),
          rs |-> IF avail /\ cl /\ remote = "ok" THEN RedisDel(rs, RedisKeys(rs, key, t))
                 ELSE rs]
    ELSE [threw |-> avail /\ cl /\ remote = "delReject",
          mem |-> MapDel(mem, {key}),
          rs |-> IF avail /\ cl /\ remote # "delReject" THEN RedisDel(rs, {key}) ELSE rs]

\* body of the try block of invalidateCache; remote: "ok", "keysReject"
\* (client.keys rejects) or "delReject" (client.del rejects)
invalidateCacheTry(avail, cl, mem, rs, key, t, remote) ==
    IF avail /\ cl
    THEN IF EndsWithStar(key)
         THEN IF remote = "keysReject"
              THEN [threw |-> TRUE, mem |-> mem, rs |-> rs]
              ELSE LET keys == RedisKeys(rs, key, t)
                   IN  IF keys # {}
                       THEN IF remote = "delReject"
                            THEN [threw |-> TRUE, mem |-> mem, rs |-> rs]
                            ELSE [threw |-> FALSE, mem |-> mem, rs |-> RedisDel(rs, keys)]
                       ELSE [threw |-> FALSE, mem |-> mem, rs |-> rs]
         ELSE IF remote = "delReject"
              THEN [threw |-> TRUE, mem |-> mem, rs |-> rs]
              ELSE [threw |-> FALSE, mem |-> mem, rs |-> RedisDel(rs, {key})]
    ELSE IF EndsWithStar(key)
         THEN [threw |-> FALSE,
               mem |-> MapDel(mem, MemMatching(mem, SliceOffLast(key))),
               rs |-> rs]
         ELSE [threw |-> FALSE, mem |-> MapDel(mem, {key}), rs |-> rs]

\* (variant: no catch clause)
invalidateCacheUncaught(avail, cl, mem, rs, key, t, remote) ==
    invalidateCacheTry(avail, cl, mem, rs, key, t, remote)

invalidateCache(avail, cl, mem, rs, key, t, remote) ==
    LET r == invalidateCacheTry(avail, cl, mem, rs, key, t, remote)
    IN  IF r.threw THEN [threw |-> FALSE, mem |-> mem, rs |-> rs] ELSE r

\* body of the try block of clearCache; remote: "ok" or "reject"
\* (client.flushDb rejects)
clearCacheTry(avail, cl, mem, rs, remote) ==
    IF avail /\ cl
    THEN IF remote = "reject"
         THEN [threw |-> TRUE, mem |-> mem, rs |-> rs]
         ELSE [threw |-> FALSE, mem |-> mem, rs |-> RedisFlushDb(rs)]
    ELSE [threw |-> FALSE, mem |-> EmptyMap, rs |-> rs]

clearCache(avail, cl, mem, rs, remote) ==
    LET r == clearCacheTry(avail, cl, mem, rs, remote)
    IN  IF r.threw THEN [threw |-> FALSE, mem |-> mem, rs |-> rs] ELSE r

\* -------------------------------------------------------------------- state
VARIABLES
    redisAvailable,  \* cache.js: let redisAvailable
    client,          \* cache.js: let client (TRUE once createClient returned)
    connect,         \* the promise of client.connect(): pending/resolved/rejected
    memoryCache,     \* cache.js: const memoryCache = new Map()
    redisStore,      \* contents of the remote store
    now,             \* Date.now()
    lastOp,          \* the latest cache operation a caller awaited, as observed
    opCount,         \* number of cache operations awaited so far
    lastSet,         \* per key: the latest memory-tier setCache not yet followed
                     \* by another set, invalidate or clear touching the key
    errorRaised,     \* the client has emitted an "error" event
    healthy,         \* a second cache service whose primary is available and
                     \* healthy throughout, driven by the same calls
                     \* (compared runs only): its map, remote store and the
                     \* value its latest get returned
    items,           \* contents of data/items.json (the backing store)
    req,             \* per request slot: the request being handled, its
                     \* position in the handler and its local variables
    reqCount,        \* number of requests received so far
    served,          \* per URL: the latest 200 response a listing request
                     \* computed on a cache miss, since the last mutation
    remoteFailed     \* some remote cache call of a request has failed

cacheObs == <<lastOp, opCount, lastSet, errorRaised, healthy>>
httpVars == <<items, req, reqCount, served, remoteFailed>>

vars == <<redisAvailable, client, connect, memoryCache, redisStore, now,
          lastOp, opCount, lastSet, errorRaised, healthy,
          items, req, reqCount, served, remoteFailed>>

NoHealthy == [mem |-> EmptyMap, rs |-> EmptyMap, ret |-> Null]

NoOp == [op |-> "none"]

\* state right after the module is loaded: initializeRedis has run up to
\* its await (or createClient threw and the catch clause ran)
InitCache ==
    /\ redisAvailable = FALSE
    /\ \/ client = TRUE /\ connect = "pending"
       \/ client = FALSE /\ connect = "rejected"
    /\ memoryCache = EmptyMap
    /\ redisStore = EmptyMap
    /\ now = 0
    /\ lastOp = NoOp
    /\ opCount = 0
    /\ lastSet = [k \in StoreKeys |-> Null]
    /\ errorRaised = FALSE
    /\ healthy = NoHealthy
    /\ items = <<>>
    /\ req = EmptyMap
    /\ reqCount = 0
    /\ served = EmptyMap
    /\ remoteFailed = FALSE

\* ------------------------------------------------- connection life cycle
\* await client.connect() resolves: redisAvailable = true
ConnectResolve ==
    /\ client /\ connect = "pending"
    /\ connect' = "resolved"
    /\ redisAvailable' = TRUE
    /\ UNCHANGED <<client, memoryCache, redisStore, now, lastOp, opCount, lastSet, errorRaised, healthy>>
    /\ UNCHANGED httpVars

\* await client.connect() rejects: the catch clause sets redisAvailable = false
ConnectReject ==
    /\ client /\ connect = "pending"
    /\ connect' = "rejected"
    /\ redisAvailable' = FALSE
    /\ UNCHANGED <<client, memoryCache, redisStore, now, lastOp, opCount, lastSet, errorRaised, healthy>>
    /\ UNCHANGED httpVars

\* client.on("error", ...): the client emits a connection-level error, at any
\* time after createClient (also while connect() is still retrying)
ClientError ==
    /\ client
    /\ redisAvailable' = FALSE
    /\ errorRaised' = TRUE
    /\ UNCHANGED <<client, connect, memoryCache, redisStore, now, lastOp, opCount, lastSet, healthy>>
    /\ UNCHANGED httpVars

\* time passes
Tick ==
    /\ now + 1000 <= MaxSeconds * 1000
    /\ now' = now + 1000
    /\ redisStore' = RedisExpire(redisStore, now')
    /\ UNCHANGED <<redisAvailable, client, connect, memoryCache,
                   lastOp, opCount, lastSet, errorRaised, healthy>>
    /\ UNCHANGED httpVars

\* --------------------------------------- cache operations awaited by a caller
\* the remote outcomes that exist for a call: none but "ok" on the memory tier
Outcomes(failures) == IF redisAvailable /\ client THEN {"ok"} \cup failures ELSE {"ok"}

Get(key, remote) ==
    LET r == getCache(redisAvailable, client, memoryCache, redisStore, key, now, remote)
    IN  /\ opCount < MaxOps
        /\ memoryCache' = r.mem
        /\ lastOp' = [op |-> "get", key |-> key, primary |-> redisAvailable /\ client,
                      remote |-> remote, threw |-> r.threw, ret |-> r.ret]
        /\ opCount' = opCount + 1
        /\ UNCHANGED <<redisAvailable, client, connect, redisStore, now, lastSet, errorRaised>>

\* (variant: a rejected remote write marks the primary unavailable)
SetDegrading(key, value, ttl, remote) ==
    LET r == setCache(redisAvailable, client, memoryCache, redisStore, key, value,
                      ttl, now, remote)
    IN  /\ opCount < MaxOps
        /\ memoryCache' = r.mem
        /\ redisStore' = r.rs
        /\ lastOp' = [op |-> "set", key |-> key, primary |-> redisAvailable /\ client,
                      remote |-> remote, threw |-> r.threw, ret |-> Null]
        /\ opCount' = opCount + 1
        /\ lastSet' = [lastSet EXCEPT ![key] =
                          IF redisAvailable /\ client THEN Null
                          ELSE [value |-> value, at |-> now, ttl |-> ttl]]
        /\ redisAvailable' = (redisAvailable /\ remote = "ok")
        /\ UNCHANGED <<client, connect, now, errorRaised>>

Set(key, value, ttl, remote) ==
    LET r == setCache(redisAvailable, client, memoryCache, redisStore, key, value,
                      ttl, now, remote)
    IN  /\ opCount < MaxOps
        /\ memoryCache' = r.mem
        /\ redisStore' = r.rs
        /\ lastOp' = [op |-> "set", key |-> key, primary |-> redisAvailable /\ client,
                      remote |-> remote, threw |-> r.threw, ret |-> Null]
        /\ opCount' = opCount + 1
        /\ lastSet' = [lastSet EXCEPT ![key] =
                          IF redisAvailable /\ client THEN Null
                          ELSE [value |-> value, at |-> now, ttl |-> ttl]]
        /\ UNCHANGED <<redisAvailable, client, connect, now, errorRaised>>

Invalidate(key, remote) ==
    LET r == invalidateCache(redisAvailable, client, memoryCache, redisStore, key, now, remote)
    IN  /\ opCount < MaxOps
        /\ memoryCache' = r.mem
        /\ redisStore' = r.rs
        /\ lastOp' = [op |-> "invalidate", key |-> key, primary |-> redisAvailable /\ client,
                      remote |-> remote, threw |-> r.threw, ret |-> Null]
        /\ opCount' = opCount + 1
        /\ lastSet' = [k \in DOMAIN lastSet |->
                          IF k = key \/ (EndsWithStar(key) /\ StartsWith(k, SliceOffLast(key)))
                          THEN Null ELSE lastSet[k]]
        /\ UNCHANGED <<redisAvailable, client, connect, now, errorRaised>>

Clear(remote) ==
    LET r == clearCache(redisAvailable, client, memoryCache, redisStore, remote)
    IN  /\ opCount < MaxOps
        /\ memoryCache' = r.mem
        /\ redisStore' = r.rs
        /\ lastOp' = [op |-> "clear", key |-> <<>>, primary |-> redisAvailable /\ client,
                      remote |-> remote, threw |-> r.threw, ret |-> Null]
        /\ opCount' = opCount + 1
        /\ lastSet' = [k \in DOMAIN lastSet |-> Null]
        /\ UNCHANGED <<redisAvailable, client, connect, now, errorRaised>>

GetStep(keys) ==
    /\ \E key \in keys, remote \in Outcomes({"reject", "garbled"}) : Get(key, remote)
    /\ UNCHANGED <<healthy, httpVars>>
SetStep(keys, values, ttls) ==
    /\ \E key \in keys, value \in values, ttl \in ttls, remote \in Outcomes({"reject"}) :
           Set(key, value, ttl, remote)
    /\ UNCHANGED <<healthy, httpVars>>
InvalidateStep(keys) ==
    /\ \E key \in keys, remote \in Outcomes({"keysReject", "delReject"}) :
           Invalidate(key, remote)
    /\ UNCHANGED <<healthy, httpVars>>
ClearStep ==
    /\ \E remote \in Outcomes({"reject"}) : Clear(remote)
    /\ UNCHANGED <<healthy, httpVars>>

\* Cache-level runs over values, TTLs and time.
NextCache ==
    \/ ConnectResolve
    \/ ConnectReject
    \/ ClientError
    \/ Tick
    \/ GetStep(TtlKeys)
    \/ SetStep(TtlKeys, Values, TTLs)
    \/ InvalidateStep(TtlInvalidateKeys)
    \/ ClearStep

SpecCache == InitCache /\ [][NextCache]_vars

\* Cache-level runs over keys and wildcard patterns (one value, one TTL).
NextWildcard ==
    \/ ConnectResolve
    \/ ConnectReject
    \/ ClientError
    \/ Tick
    \/ GetStep(StoreKeys)
    \/ SetStep(StoreKeys, {[val |-> "v1"]}, {1})
    \/ InvalidateStep(InvalidateKeys)
    \/ ClearStep

SpecWildcard == InitCache /\ [][NextWildcard]_vars

\* ------------------------------------------------------------ compared runs
\* Two cache services receive the same calls at the same times.  The module
\* state is the one whose primary is unavailable throughout (createClient or
\* connect failed); `healthy` is the one whose primary is available and whose
\* remote calls all succeed.
InitTwin ==
    /\ redisAvailable = FALSE
    /\ client = TRUE /\ connect = "rejected"
    /\ memoryCache = EmptyMap
    /\ redisStore = EmptyMap
    /\ now = 0
    /\ lastOp = NoOp
    /\ opCount = 0
    /\ lastSet = [k \in StoreKeys |-> Null]
    /\ errorRaised = FALSE
    /\ healthy = NoHealthy
    /\ items = <<>>
    /\ req = EmptyMap
    /\ reqCount = 0
    /\ served = EmptyMap
    /\ remoteFailed = FALSE

TwinGet ==
    \E key \in StoreKeys :
        LET h == getCache(TRUE, TRUE, healthy.mem, healthy.rs, key, now, "ok")
        IN  /\ Get(key, "ok")
            /\ UNCHANGED httpVars
            /\ healthy' = [healthy EXCEPT !.mem = h.mem, !.ret = h.ret]

TwinSet ==
    \E key \in StoreKeys, value \in Values, ttl \in TTLs :
        LET h == setCache(TRUE, TRUE, healthy.mem, healthy.rs, key, value, ttl, now, "ok")
        IN  /\ Set(key, value, ttl, "ok")
            /\ UNCHANGED httpVars
            /\ healthy' = [healthy EXCEPT !.mem = h.mem, !.rs = h.rs]

TwinInvalidate ==
    \E key \in InvalidateKeys :
        LET h == invalidateCache(TRUE, TRUE, healthy.mem, healthy.rs, key, now, "ok")
        IN  /\ Invalidate(key, "ok")
            /\ UNCHANGED httpVars
            /\ healthy' = [healthy EXCEPT !.mem = h.mem, !.rs = h.rs]

TwinClear ==
    LET h == clearCache(TRUE, TRUE, healthy.mem, healthy.rs, "ok")
    IN  /\ Clear("ok")
        /\ healthy' = [healthy EXCEPT !.mem = h.mem, !.rs = h.rs]
        /\ UNCHANGED httpVars

TwinTick ==
    /\ now + 1000 <= MaxSeconds * 1000
    /\ now' = now + 1000
    /\ healthy' = [healthy EXCEPT !.rs = RedisExpire(healthy.rs, now')]
    /\ UNCHANGED <<redisAvailable, client, connect, memoryCache, redisStore,
                   lastOp, opCount, lastSet, errorRaised>>
    /\ UNCHANGED httpVars

NextTwin ==
    \/ TwinGet
    \/ TwinSet
    \/ TwinInvalidate
    \/ TwinClear
    \/ TwinTick

SpecTwin == InitTwin /\ [][NextTwin]_vars

\* =============================================== item routes (routes/items.js)
\* ------------------------------------------------------------ string helpers
\* String.prototype.toLowerCase, on the letters the model uses
LowerChar(c) ==
    CASE c = "L" -> "l" [] c = "A" -> "a" [] c = "M" -> "m" [] c = "P" -> "p"
      [] c = "E" -> "e" [] c = "F" -> "f" [] c = "N" -> "n" [] OTHER -> c
toLowerCase(str) == [i \in 1..Len(str) |-> LowerChar(str[i])]

\* String.prototype.trim
RECURSIVE TrimStart(_)
TrimStart(str) == IF Len(str) > 0 /\ Head(str) = " " THEN TrimStart(Tail(str)) ELSE str
RECURSIVE TrimEnd(_)
TrimEnd(str) ==
    IF Len(str) > 0 /\ str[Len(str)] = " " THEN TrimEnd(SubSeq(str, 1, Len(str) - 1)) ELSE str
trim(str) == TrimEnd(TrimStart(str))

\* (variant: match at the start of the string only)
includesAtStart(str, sub) == Len(sub) <= Len(str) /\ SubSeq(str, 1, Len(sub)) = sub

\* String.prototype.includes
includes(str, sub) ==
    \E i \in 0..(Len(str) - Len(sub)) : SubSeq(str, i + 1, i + Len(sub)) = sub

\* parseInt(str): optional sign, then the longest run of leading digits
Digits == <<"0", "1", "2", "3", "4", "5", "6", "7", "8", "9">>
IsDigit(c) == \E d \in 1..10 : Digits[d] = c
DigitValue(c) == (CHOOSE d \in 1..10 : Digits[d] = c) - 1
RECURSIVE LeadingDigits(_, _)
LeadingDigits(str, acc) ==
    IF Len(str) > 0 /\ IsDigit(Head(str))
    THEN LeadingDigits(Tail(str), acc * 10 + DigitValue(Head(str)))
    ELSE acc
parseInt(raw) ==
    LET str == TrimStart(raw)
        neg == Len(str) > 0 /\ Head(str) = "-"
        rest == IF Len(str) > 0 /\ Head(str) \in {"-", "+"} THEN Tail(str) ELSE str
    IN  IF Len(rest) = 0 \/ ~IsDigit(Head(rest))
        THEN [nan |-> TRUE, n |-> 0]
        ELSE [nan |-> FALSE,
              n |-> IF neg THEN 0 - LeadingDigits(rest, 0) ELSE LeadingDigits(rest, 0)]

\* Array.prototype.filter
RECURSIVE FilterSeq(_, _)
FilterSeq(seq, q) ==
    IF seq = <<>> THEN <<>>
    ELSE LET item == Head(seq)
             keep == \/ includes(toLowerCase(item.name), q)
                     \/ (item.category # <<>> /\ includes(toLowerCase(item.category), q))
         IN  IF keep THEN <<item>> \o FilterSeq(Tail(seq), q) ELSE FilterSeq(Tail(seq), q)

\* Array.prototype.slice(0, n)
slice0(seq, n) == SubSeq(seq, 1, IF n < Len(seq) THEN n ELSE Len(seq))

\* ------------------------------------------------------------- request inputs
\* req.originalUrl of the listing requests, with the parsed req.query.
\* An absent parameter and an empty one are both the empty string: the
\* handler tests them for truthiness only.
ApiItems == <<"/", "a", "p", "i", "/", "i", "t", "e", "m", "s">>
ListQueries ==
    { [url |-> ApiItems, q |-> <<>>, limit |-> <<>>],
      [url |-> ApiItems \o <<"?", "q", "=", "l", "a", "m">>, q |-> <<"l", "a", "m">>, limit |-> <<>>],
      [url |-> ApiItems \o <<"?", "l", "i", "m", "i", "t", "=", "1">>, q |-> <<>>, limit |-> <<"1">>],
      [url |-> ApiItems \o <<"?", "l", "i", "m", "i", "t", "=", "0">>, q |-> <<>>, limit |-> <<"0">>] }
Urls == {qy.url : qy \in ListQueries}

\* `items::${req.originalUrl}`
ItemsNamespace == <<"i", "t", "e", "m", "s", ":", ":">>
CacheKey(url) == ItemsNamespace \o url
\* "items::*"
ItemsWildcard == ItemsNamespace \o <<"*">>

\* the collections data/items.json starts with: empty, or two items
\* (category <<>> stands for null)
LaptopPro == [id |-> 1, name |-> <<"L", "a", "p">>, category |-> <<"E">>]
DeskLamp == [id |-> 2, name |-> <<"L", "a", "m", "p">>, category |-> <<>>]
Collections == { <<>>, <<LaptopPro, DeskLamp>> }

\* req.body of create and update requests, req.params.id
EmptyBody == EmptyMap
CreateBodies == { [name |-> <<"l", "a", "m">>], EmptyBody }
UpdateBodies == { [name |-> <<"N">>], EmptyBody }
IdParams == { <<"1">>, <<"7">>, <<"x">> }

\* ------------------------------------------------------------ handler bodies
\* GET /: from the loaded data to the response object or the thrown error
ListResult(data, query, t) ==
    LET filtered == IF query.q # <<>> /\ trim(query.q) # <<>>
                    THEN FilterSeq(data, toLowerCase(trim(query.q)))
                    ELSE data
        limitNum == parseInt(query.limit)
    IN  IF query.limit # <<>> /\ (limitNum.nan \/ limitNum.n < 1)
        THEN [status |-> 400, body |-> [error |-> "INVALID_LIMIT"]]
        ELSE LET results == IF query.limit # <<>> THEN slice0(filtered, limitNum.n)
                            ELSE filtered
             IN  [status |-> 200,
                  body |-> [items |-> results, total |-> Len(results), timestamp |-> t]]

\* Math.max(...data.map((item) => item.id), 0)
RECURSIVE MaxId(_)
MaxId(data) ==
    IF data = <<>> THEN 0
    ELSE LET m == MaxId(Tail(data)) IN IF Head(data).id > m THEN Head(data).id ELSE m

\* data.findIndex((item) => item.id === itemId); 0 stands for -1
findIndex(data, itemId) ==
    IF \E i \in 1..Len(data) : data[i].id = itemId
    THEN CHOOSE i \in 1..Len(data) :
             data[i].id = itemId /\ \A j \in 1..(i - 1) : data[j].id # itemId
    ELSE 0

\* { ...data[itemIndex], ...updateData }
Spread(item, updateData) ==
    [f \in (DOMAIN item) \cup (DOMAIN updateData) |->
        IF f \in DOMAIN updateData THEN updateData[f] ELSE item[f]]

\* the item POST / builds (price and createdAt, which no listing looks at,
\* are left out; a null category is the empty string)
NewItem(data, input) ==
    [id |-> MaxId(data) + 1,
     name |-> trim(input.name),
     category |-> IF "category" \in DOMAIN input /\ input.category # <<>>
                  THEN trim(input.category) ELSE <<>>]

\* validation at the top of POST /: the error code, or "" when valid
CreateInvalid(input) ==
    IF DOMAIN input = {} THEN "INVALID_ITEM_DATA"
    ELSE IF "name" \notin DOMAIN input \/ input.name = <<>> \/ trim(input.name) = <<>>
         THEN "MISSING_NAME"
    ELSE ""

\* validation at the top of PUT /:id and DELETE /:id
IdInvalid(id) == parseInt(id).nan \/ parseInt(id).n < 1

\* ------------------------------------------------------------------ requests
\* Number of requests a run receives.
MaxRequests == 3
\* Date.now() advances in steps of half the default TTL, this many times.
MaxTicks == 2

IdleReq ==
    [kind |-> "none", pc |-> "idle", query |-> [url |-> <<>>, q |-> <<>>, limit |-> <<>>],
     id |-> <<>>, input |-> EmptyBody, cached |-> Null, data |-> <<>>,
     status |-> 0, body |-> Null, reads |-> 0,
     getRemote |-> "ok", io |-> <<>>]

\* a slot is free when no request is being handled in it
Free(r) == req[r].pc \in {"idle", "done"}
\* requests are handled one after another
NoneInFlight == \A r \in DOMAIN req : Free(r)
Primary == redisAvailable /\ client
\* res.status(...).json(...) / next(error): the response, once
Respond(rec, status, body) ==
    [rec EXCEPT !.pc = "done", !.status = status, !.body = body,
                !.data = <<>>, !.cached = Null, !.getRemote = "ok"]
\* readItemsData: "ok", "absent" (fileExists is false) or "error" (readJsonFile throws)
ReadEvent(outcome) ==
    IF outcome = "ok" THEN "read"
    ELSE IF outcome = "absent" THEN "readAbsent" ELSE "readFailed"
\* (variant: the status of the thrown error is not carried over)
ReadErrorUnclassified(outcome) == [status |-> 500, body |-> [error |-> "DATA_READ_ERROR"]]
ReadError(outcome) ==
    IF outcome = "absent" THEN [status |-> 404, body |-> [error |-> "DATA_READ_ERROR"]]
    ELSE [status |-> 500, body |-> [error |-> "DATA_READ_ERROR"]]

\* state after the routes module is loaded, for the slots of a run
InitRequests(slots, collections, urls) ==
    /\ redisAvailable = FALSE
    /\ \/ client = TRUE /\ connect = "pending"
       \/ client = FALSE /\ connect = "rejected"
    /\ memoryCache = EmptyMap
    /\ redisStore = EmptyMap
    /\ now = 0
    /\ lastOp = NoOp
    /\ opCount = 0
    /\ lastSet = [k \in StoreKeys |-> Null]
    /\ errorRaised = FALSE
    /\ healthy = NoHealthy
    /\ items \in collections
    /\ req = [r \in slots |-> IdleReq]
    /\ reqCount = 0
    /\ served = [u \in urls |-> Null]
    /\ remoteFailed = FALSE

InitHttp(slots, collections) == InitRequests(slots, collections, Urls)

\* time passes between the steps of requests
TickHttp ==
    /\ now + CACHE_TTL * 500 <= MaxTicks * CACHE_TTL * 500
    /\ now' = now + CACHE_TTL * 500
    /\ redisStore' = RedisExpire(redisStore, now')
    /\ UNCHANGED <<redisAvailable, client, connect, memoryCache>>
    /\ UNCHANGED cacheObs
    /\ UNCHANGED httpVars

\* GET /: const cached = await getCache(cacheKey)
ListStart(r, queries) ==
    \E query \in queries, remote \in Outcomes({"reject", "garbled"}) :
        LET g == getCache(redisAvailable, client, memoryCache, redisStore,
                          CacheKey(query.url), now, remote)
        IN  /\ Free(r) /\ reqCount < MaxRequests
            /\ reqCount' = reqCount + 1
            /\ memoryCache' = g.mem
            /\ req' = [req EXCEPT ![r] =
                         [IdleReq EXCEPT !.kind = "list",
                                         !.pc = IF g.threw THEN "crashed" ELSE "awaitGet",
                                         !.query = query, !.cached = g.ret,
                                         !.getRemote = remote,
                                         !.io = <<"get">>]]
            /\ remoteFailed' = (remoteFailed \/ remote # "ok")
            /\ UNCHANGED <<redisAvailable, client, connect, redisStore, now, items, served>>
            /\ UNCHANGED cacheObs

\* GET / without the early return on a hit: the store is read every time
ListAlwaysRead(r) ==
    \E outcome \in {"ok", "absent", "error"} :
        /\ req[r].kind = "list" /\ req[r].pc = "awaitGet"
        /\ IF outcome = "ok"
           THEN req' = [req EXCEPT ![r] = [req[r] EXCEPT !.pc = "awaitRead", !.data = items,
                                                           !.reads = @ + 1,
                                                           !.getRemote = "ok",
                                                           !.io = Append(@, "read")]]
           ELSE req' = [req EXCEPT ![r] =
                           Respond([req[r] EXCEPT !.reads = @ + 1,
                                                  !.io = Append(@, ReadEvent(outcome))],
                                   ReadError(outcome).status, ReadError(outcome).body)]
        /\ UNCHANGED <<redisAvailable, client, connect, memoryCache, redisStore, now,
                       items, reqCount, served, remoteFailed>>
        /\ UNCHANGED cacheObs

\* GET /: if (cached) return res.json(cached); else await readItemsData()
ListHitOrRead(r) ==
    \E outcome \in {"ok", "absent", "error"} :
        /\ req[r].kind = "list" /\ req[r].pc = "awaitGet"
        /\ IF req[r].cached # Null
           THEN /\ outcome = "ok"
                /\ req' = [req EXCEPT ![r] = Respond(req[r], 200, req[r].cached)]
           ELSE IF outcome = "ok"
           THEN req' = [req EXCEPT ![r] = [req[r] EXCEPT !.pc = "awaitRead", !.data = items,
                                                           !.reads = @ + 1,
                                                           !.getRemote = "ok",
                                                           !.io = Append(@, "read")]]
           ELSE req' = [req EXCEPT ![r] =
                           Respond([req[r] EXCEPT !.reads = @ + 1,
                                                  !.io = Append(@, ReadEvent(outcome))],
                                   ReadError(outcome).status, ReadError(outcome).body)]
        /\ UNCHANGED <<redisAvailable, client, connect, memoryCache, redisStore, now,
                       items, reqCount, served, remoteFailed>>
        /\ UNCHANGED cacheObs

\* GET / under a lock that mutations hold from their read to their response
ListComputeLocked(r) ==
    \E remote \in Outcomes({"reject"}) :
        LET res == ListResult(req[r].data, req[r].query, now)
            c == setCache(redisAvailable, client, memoryCache, redisStore,
                          CacheKey(req[r].query.url), res.body, CACHE_TTL, now, remote)
        IN  /\ req[r].kind = "list" /\ req[r].pc = "awaitRead"
            /\ req[r].data = items
            /\ res.status = 200
            /\ memoryCache' = c.mem
            /\ redisStore' = c.rs
            /\ req' = [req EXCEPT ![r] =
                         [req[r] EXCEPT !.pc = "awaitSet", !.body = res.body,
                                        !.io = Append(@, "set")]]
            /\ served' = [served EXCEPT ![req[r].query.url] =
                             [body |-> res.body, at |-> now, primary |-> Primary,
                              remote |-> remote]]
            /\ remoteFailed' = (remoteFailed \/ remote # "ok")
            /\ UNCHANGED <<redisAvailable, client, connect, now, items, reqCount>>
            /\ UNCHANGED cacheObs

\* GET /: filter, limit, build the response, await setCache(cacheKey, response)
ListCompute(r) ==
    \E remote \in Outcomes({"reject"}) :
        LET res == ListResult(req[r].data, req[r].query, now)
            c == setCache(redisAvailable, client, memoryCache, redisStore,
                          CacheKey(req[r].query.url), res.body, CACHE_TTL, now, remote)
        IN  /\ req[r].kind = "list" /\ req[r].pc = "awaitRead"
            /\ IF res.status # 200
               THEN /\ remote = "ok"
                    /\ req' = [req EXCEPT ![r] = Respond(req[r], res.status, res.body)]
                    /\ UNCHANGED <<memoryCache, redisStore, served, remoteFailed>>
               ELSE /\ memoryCache' = c.mem
                    /\ redisStore' = c.rs
                    /\ req' = [req EXCEPT ![r] =
                                 [req[r] EXCEPT !.pc = IF c.threw THEN "crashed" ELSE "awaitSet",
                                                !.body = res.body,
                                                !.io = Append(@, "set")]]
                    /\ served' = [served EXCEPT ![req[r].query.url] =
                                     [body |-> res.body, at |-> now, primary |-> Primary,
                                      remote |-> remote]]
                    /\ remoteFailed' = (remoteFailed \/ remote # "ok")
            /\ UNCHANGED <<redisAvailable, client, connect, now, items, reqCount>>
            /\ UNCHANGED cacheObs

\* GET /: res.json(response)
ListRespond(r) ==
    /\ req[r].kind = "list" /\ req[r].pc = "awaitSet"
    /\ req' = [req EXCEPT ![r] = Respond(req[r], 200, req[r].body)]
    /\ UNCHANGED <<redisAvailable, client, connect, memoryCache, redisStore, now,
                   items, reqCount, served, remoteFailed>>
    /\ UNCHANGED cacheObs

\* a mutation handler that purges the listing entries of the in-process map
\* before it validates
MutationStartPurging(r, kind, id, input, invalid, outcome) ==
    /\ Free(r) /\ reqCount < MaxRequests
    /\ reqCount' = reqCount + 1
    /\ memoryCache' = MapDel(memoryCache, MemMatching(memoryCache, ItemsNamespace))
    /\ LET rec == [IdleReq EXCEPT !.kind = kind, !.id = id, !.input = input]
       IN  IF invalid # ""
           THEN /\ outcome = "ok"
                /\ req' = [req EXCEPT ![r] = Respond(rec, 400, [error |-> invalid])]
           ELSE IF outcome = "ok"
           THEN req' = [req EXCEPT ![r] = [rec EXCEPT !.pc = "awaitRead", !.data = items,
                                                       !.reads = 1, !.io = <<"read">>]]
           ELSE req' = [req EXCEPT ![r] =
                           Respond([rec EXCEPT !.reads = 1, !.io = <<ReadEvent(outcome)>>],
                                   ReadError(outcome).status, ReadError(outcome).body)]
    /\ UNCHANGED <<redisAvailable, client, connect, redisStore, now,
                   items, served, remoteFailed>>
    /\ UNCHANGED cacheObs

\* a mutation handler up to "const data = await readItemsData()": validation
\* of the request, then the read of the store
MutationStart(r, kind, id, input, invalid, outcome) ==
    /\ Free(r) /\ reqCount < MaxRequests
    /\ reqCount' = reqCount + 1
    /\ LET rec == [IdleReq EXCEPT !.kind = kind, !.id = id, !.input = input]
       IN  IF invalid # ""
           THEN /\ outcome = "ok"
                /\ req' = [req EXCEPT ![r] = Respond(rec, 400, [error |-> invalid])]
           ELSE IF outcome = "ok"
           THEN req' = [req EXCEPT ![r] = [rec EXCEPT !.pc = "awaitRead", !.data = items,
                                                       !.reads = 1, !.io = <<"read">>]]
           ELSE req' = [req EXCEPT ![r] =
                           Respond([rec EXCEPT !.reads = 1, !.io = <<ReadEvent(outcome)>>],
                                   ReadError(outcome).status, ReadError(outcome).body)]
    /\ UNCHANGED <<redisAvailable, client, connect, memoryCache, redisStore, now,
                   items, served, remoteFailed>>
    /\ UNCHANGED cacheObs

\* POST /
CreateStart(r, bodies) ==
    \E input \in bodies, outcome \in {"ok", "absent", "error"} :
        MutationStart(r, "create", <<>>, input, CreateInvalid(input), outcome)

\* PUT /:id
UpdateStart(r, ids, bodies) ==
    \E id \in ids, input \in bodies, outcome \in {"ok", "absent", "error"} :
        MutationStart(r, "update", id, input,
                      IF IdInvalid(id) THEN "INVALID_ID"
                      ELSE IF DOMAIN input = {} THEN "INVALID_UPDATE_DATA" ELSE "",
                      outcome)

\* DELETE /:id
DeleteStart(r, ids) ==
    \E id \in ids, outcome \in {"ok", "absent", "error"} :
        MutationStart(r, "delete", id, EmptyBody,
                      IF IdInvalid(id) THEN "INVALID_ID" ELSE "", outcome)

\* what a mutation handler makes of the loaded data: the collection to
\* write and the success response, or found = FALSE (ITEM_NOT_FOUND)
Mutated(rec) ==
    LET data == rec.data
        idx == findIndex(data, parseInt(rec.id).n)
    IN  IF rec.kind = "create"
        THEN [found |-> TRUE, data |-> Append(data, NewItem(data, rec.input)),
              status |-> 201, body |-> NewItem(data, rec.input)]
        ELSE IF idx = 0
        THEN [found |-> FALSE, data |-> data, status |-> 404,
              body |-> [error |-> "ITEM_NOT_FOUND"]]
        ELSE IF rec.kind = "update"
        THEN [found |-> TRUE,
              data |-> [data EXCEPT ![idx] = Spread(data[idx], rec.input)],
              status |-> 200, body |-> Spread(data[idx], rec.input)]
        ELSE [found |-> TRUE,
              data |-> SubSeq(data, 1, idx - 1) \o SubSeq(data, idx + 1, Len(data)),
              status |-> 200, body |-> [deletedItem |-> data[idx]]]

\* a mutation handler from the loaded data to "await writeItemsData(data)"
MutationWrite(r) ==
    \E outcome \in {"ok", "fail"} :
        LET m == Mutated(req[r])
        IN  /\ req[r].kind \in {"create", "update", "delete"} /\ req[r].pc = "awaitRead"
            /\ IF ~m.found
               THEN /\ outcome = "ok"
                    /\ req' = [req EXCEPT ![r] = Respond(req[r], m.status, m.body)]
                    /\ UNCHANGED <<items, served>>
               ELSE IF outcome = "fail"
               THEN /\ req' = [req EXCEPT ![r] =
                                  Respond([req[r] EXCEPT !.io = Append(@, "writeFailed")],
                                          500, [error |-> "DATA_WRITE_ERROR"])]
                    /\ UNCHANGED <<items, served>>
               ELSE /\ items' = m.data
                    /\ req' = [req EXCEPT ![r] = [req[r] EXCEPT !.pc = "awaitWrite",
                                                                 !.body = m.body,
                                                                 !.status = m.status,
                                                                 !.io = Append(@, "write")]]
                    /\ served' = [u \in DOMAIN served |-> Null]
            /\ UNCHANGED <<redisAvailable, client, connect, memoryCache, redisStore, now,
                           reqCount, remoteFailed>>
            /\ UNCHANGED cacheObs

\* a mutation handler: await invalidateCache("items::*")
MutationInvalidate(r) ==
    \E remote \in Outcomes({"keysReject", "delReject"}) :
        LET c == invalidateCache(redisAvailable, client, memoryCache, redisStore,
                                 ItemsWildcard, now, remote)
        IN  /\ req[r].kind \in {"create", "update", "delete"} /\ req[r].pc = "awaitWrite"
            /\ memoryCache' = c.mem
            /\ redisStore' = c.rs
            /\ req' = [req EXCEPT ![r] =
                          [req[r] EXCEPT !.pc = IF c.threw THEN "crashed" ELSE "awaitInvalidate",
                                         !.io = Append(@, "invalidate")]]
            /\ remoteFailed' = (remoteFailed \/ remote # "ok")
            /\ UNCHANGED <<redisAvailable, client, connect, now, items, reqCount, served>>
            /\ UNCHANGED cacheObs

\* a mutation handler that answers without awaiting the invalidation
MutationRespondEarly(r) ==
    /\ req[r].kind \in {"create", "update", "delete"}
    /\ req[r].pc \in {"awaitWrite", "awaitInvalidate"}
    /\ req' = [req EXCEPT ![r] = Respond(req[r], req[r].status, req[r].body)]
    /\ UNCHANGED <<redisAvailable, client, connect, memoryCache, redisStore, now,
                   items, reqCount, served, remoteFailed>>
    /\ UNCHANGED cacheObs

\* a mutation handler: res.status(201).json(newItem) / res.json(...)
MutationRespond(r) ==
    /\ req[r].kind \in {"create", "update", "delete"} /\ req[r].pc = "awaitInvalidate"
    /\ req' = [req EXCEPT ![r] = Respond(req[r], req[r].status, req[r].body)]
    /\ UNCHANGED <<redisAvailable, client, connect, memoryCache, redisStore, now,
                   items, reqCount, served, remoteFailed>>
    /\ UNCHANGED cacheObs

\* the listing requests of the sequential runs: unfiltered, filtered, limit=0
SequentialQueries == {qy \in ListQueries : qy.limit # <<"1">>}

\* the store and the mutation requests of the sequential runs: one item, and
\* requests that pass validation and name that item
SequentialCollections == { <<LaptopPro>> }
SequentialCreates == { [name |-> <<"l", "a", "m">>] }
SequentialUpdates == { [name |-> <<"N">>] }
SequentialIds == { <<"1">> }

\* Requests handled one after another: a request is received only when no
\* other is in flight.
NextSequential ==
    \/ ConnectResolve
    \/ ConnectReject
    \/ ClientError
    \/ TickHttp
    \/ NoneInFlight /\ ListStart(1, SequentialQueries)
    \/ ListHitOrRead(1)
    \/ ListCompute(1)
    \/ ListRespond(1)
    \/ NoneInFlight /\ CreateStart(1, SequentialCreates)
    \/ NoneInFlight /\ UpdateStart(1, SequentialIds, SequentialUpdates)
    \/ NoneInFlight /\ DeleteStart(1, SequentialIds)
    \/ MutationWrite(1)
    \/ MutationInvalidate(1)
    \/ MutationRespond(1)

SpecSequential == InitHttp({1}, SequentialCollections) /\ [][NextSequential]_vars

\* Requests that overlap: two handlers run at a time, each of their awaits
\* is a point where the other, the clock and the connection may step.  The
\* listing requests all have the same URL and the mutations are creates.
Slots == {1, 2}
ConcurrentQueries == {qy \in ListQueries : qy.q = <<>> /\ qy.limit = <<>>}

NextConcurrent ==
    \/ ConnectResolve
    \/ ConnectReject
    \/ ClientError
    \/ TickHttp
    \/ \E r \in Slots : ListStart(r, ConcurrentQueries)
    \/ \E r \in Slots : ListHitOrRead(r)
    \/ \E r \in Slots : ListCompute(r)
    \/ \E r \in Slots : ListRespond(r)
    \/ \E r \in Slots : CreateStart(r, SequentialCreates)
    \/ \E r \in Slots : MutationWrite(r)
    \/ \E r \in Slots : MutationInvalidate(r)
    \/ \E r \in Slots : MutationRespond(r)

SpecConcurrent == InitHttp(Slots, SequentialCollections) /\ [][NextConcurrent]_vars

\* The listing computation on its own: one store, one listing request with
\* a search term and a limit drawn from the sets below, on the memory tier.
MaxListings == 1
SearchTerms ==
    { <<>>, <<"A", "M">>, <<" ", "l", "a", " ">>, <<" ">>, <<"e">>, <<"z">> }
Limits == { <<>>, <<"1">>, <<"2">>, <<"5">> }
\* req.originalUrl and req.query of GET /api/items?q=..&limit=..
ListingQuery(q, limit) ==
    [url |-> ApiItems \o <<"?", "q", "=">> \o q \o <<"&", "l", "i", "m", "i", "t", "=">> \o limit,
     q |-> q, limit |-> limit]
ListingQueries == {ListingQuery(q, limit) : q \in SearchTerms, limit \in Limits}
ListingUrls == {qy.url : qy \in ListingQueries}
ListingCollections ==
    { <<>>, <<LaptopPro, DeskLamp>>,
      <<DeskLamp, LaptopPro, [id |-> 3, name |-> <<"l", "a", "m">>, category |-> <<"E">>]>> }

InitListing == InitRequests({1}, ListingCollections, ListingUrls)

NextListing ==
    \/ reqCount < MaxListings /\ ListStart(1, ListingQueries)
    \/ ListHitOrRead(1)
    \/ ListCompute(1)
    \/ ListRespond(1)

SpecListing == InitListing /\ [][NextListing]_vars

\* Mutation requests of every kind the handlers tell apart, valid and
\* invalid, next to listing requests that fill the cache.
MaxMutationRequests == 2
MutationCreates ==
    { [name |-> <<"l", "a", "m">>], EmptyBody, [name |-> <<" ">>], [category |-> <<"E">>] }
MutationIds == IdParams \cup { <<"0">> }

NextMutations ==
    \/ ConnectResolve
    \/ ConnectReject
    \/ ClientError
    \/ TickHttp
    \/ NoneInFlight /\ reqCount < MaxMutationRequests /\ ListStart(1, ConcurrentQueries)
    \/ ListHitOrRead(1)
    \/ ListCompute(1)
    \/ ListRespond(1)
    \/ NoneInFlight /\ reqCount < MaxMutationRequests /\ CreateStart(1, MutationCreates)
    \/ NoneInFlight /\ reqCount < MaxMutationRequests
         /\ UpdateStart(1, MutationIds, UpdateBodies)
    \/ NoneInFlight /\ reqCount < MaxMutationRequests /\ DeleteStart(1, MutationIds)
    \/ MutationWrite(1)
    \/ MutationInvalidate(1)
    \/ MutationRespond(1)

SpecMutations == InitHttp({1}, Collections) /\ [][NextMutations]_vars

\* Runs in which every call a handler awaits (cache, store) settles, so that
\* a handler suspended at an await is resumed: one item in the store,
\* requests that pass validation and requests that fail it.
SettlingIds == { <<"1">>, <<"7">> }
SettlingQueries == {qy \in SequentialQueries : qy.q = <<>>}

NextSettling ==
    \/ ConnectResolve
    \/ ConnectReject
    \/ ClientError
    \/ TickHttp
    \/ NoneInFlight /\ reqCount < MaxMutationRequests /\ ListStart(1, SettlingQueries)
    \/ ListHitOrRead(1)
    \/ ListCompute(1)
    \/ ListRespond(1)
    \/ NoneInFlight /\ reqCount < MaxMutationRequests /\ CreateStart(1, CreateBodies)
    \/ NoneInFlight /\ reqCount < MaxMutationRequests
         /\ UpdateStart(1, SequentialIds, SequentialUpdates)
    \/ NoneInFlight /\ reqCount < MaxMutationRequests /\ DeleteStart(1, SettlingIds)
    \/ MutationWrite(1)
    \/ MutationInvalidate(1)
    \/ MutationRespond(1)

SpecSettling ==
    /\ InitHttp({1}, SequentialCollections)
    /\ [][NextSettling]_vars
    /\ WF_vars(ListHitOrRead(1))
    /\ WF_vars(ListCompute(1))
    /\ WF_vars(ListRespond(1))
    /\ WF_vars(MutationWrite(1))
    /\ WF_vars(MutationInvalidate(1))
    /\ WF_vars(MutationRespond(1))

\* Create requests that overlap: two handlers, each of their awaits a point
\* where the other may step; the two request bodies differ in the name.
RaceCreates == { [name |-> <<"l", "a", "m">>], [name |-> <<"N">>] }

NextCreates ==
    \/ \E r \in Slots : CreateStart(r, RaceCreates)
    \/ \E r \in Slots : MutationWrite(r)
    \/ \E r \in Slots : MutationInvalidate(r)
    \/ \E r \in Slots : MutationRespond(r)

SpecCreates == InitHttp(Slots, SequentialCollections) /\ [][NextCreates]_vars

\* Mutations one after another on a store of two items, with update bodies
\* that carry a name or an id.
IdTargets == { <<"1">>, <<"2">> }
IdUpdates == { [name |-> <<"N">>], [id |-> 2], [id |-> 5] }

NextIds ==
    \/ NoneInFlight /\ CreateStart(1, SequentialCreates)
    \/ NoneInFlight /\ UpdateStart(1, IdTargets, IdUpdates)
    \/ NoneInFlight /\ DeleteStart(1, IdTargets)
    \/ MutationWrite(1)
    \/ MutationInvalidate(1)
    \/ MutationRespond(1)

SpecIds == InitHttp({1}, { <<LaptopPro, DeskLamp>> }) /\ [][NextIds]_vars

\* ------------------------------------------------------- overlapping callers
\* Callers that await cache operations at the same time.  A call runs up to
\* the first await inside the operation when it is made: on the memory path
\* getCache and setCache contain no await, so the whole body runs at the
\* call and the caller resumes later with the settled result; on the remote
\* path the availability flag is read at the call and the client command
\* settles later.  req holds, per caller, the call it is awaiting.
Callers == {1, 2}
CallKeys == { <<"b">> }
IdleCall ==
    [kind |-> "none", pc |-> "idle", key |-> <<>>, value |-> Null, ttl |-> 0,
     primary |-> FALSE, ret |-> Null, at |-> 0]

InitCalls ==
    /\ redisAvailable = FALSE
    /\ \/ client = TRUE /\ connect = "pending"
       \/ client = FALSE /\ connect = "rejected"
    /\ memoryCache = EmptyMap
    /\ redisStore = EmptyMap
    /\ now = 0
    /\ lastOp = NoOp
    /\ opCount = 0
    /\ lastSet = [k \in StoreKeys |-> Null]
    /\ errorRaised = FALSE
    /\ healthy = NoHealthy
    /\ items = <<>>
    /\ req = [c \in Callers |-> IdleCall]
    /\ reqCount = 0
    /\ served = EmptyMap
    /\ remoteFailed = FALSE

\* caller c evaluates getCache(key) and awaits the promise
CallGet(c, key) ==
    LET r == getCache(redisAvailable, client, memoryCache, redisStore, key, now, "ok")
    IN  /\ req[c].pc # "pending" /\ opCount < MaxOps
        /\ opCount' = opCount + 1
        /\ IF Primary
           THEN /\ req' = [req EXCEPT ![c] =
                             [IdleCall EXCEPT !.kind = "get", !.pc = "pending", !.key = key,
                                              !.primary = TRUE, !.at = now]]
                /\ UNCHANGED memoryCache
           ELSE /\ req' = [req EXCEPT ![c] =
                             [IdleCall EXCEPT !.kind = "get", !.pc = "pending", !.key = key,
                                              !.ret = r.ret, !.at = now]]
                /\ memoryCache' = r.mem
        /\ UNCHANGED <<redisAvailable, client, connect, redisStore, now, lastOp, lastSet,
                       errorRaised, healthy, items, reqCount, served, remoteFailed>>

\* caller c evaluates setCache(key, value, ttl) and awaits the promise
\* (lastSet: the latest set of the key that took the memory path)
CallSet(c, key, value, ttl) ==
    LET r == setCache(redisAvailable, client, memoryCache, redisStore, key, value, ttl,
                      now, "ok")
    IN  /\ req[c].pc # "pending" /\ opCount < MaxOps
        /\ opCount' = opCount + 1
        /\ req' = [req EXCEPT ![c] =
                     [IdleCall EXCEPT !.kind = "set", !.pc = "pending", !.key = key,
                                      !.value = value, !.ttl = ttl, !.primary = Primary,
                                      !.at = now]]
        /\ memoryCache' = IF Primary THEN memoryCache ELSE r.mem
        /\ lastSet' = IF Primary THEN lastSet
                      ELSE [lastSet EXCEPT ![key] = [value |-> value, at |-> now, ttl |-> ttl]]
        /\ UNCHANGED <<redisAvailable, client, connect, redisStore, now, lastOp,
                       errorRaised, healthy, items, reqCount, served, remoteFailed>>

\* (variant: getCache is suspended between its expiry check and its delete)
CallSettleDeleting(c) ==
    \E remote \in {"ok", "reject"} :
        /\ req[c].pc = "pending"
        /\ remote = "reject" => req[c].primary
        /\ req' = [req EXCEPT ![c] = [req[c] EXCEPT !.pc = "done"]]
        /\ memoryCache' = IF req[c].kind = "get" /\ req[c].ret = Null
                          THEN MapDel(memoryCache, {req[c].key}) ELSE memoryCache
        /\ UNCHANGED <<redisAvailable, client, connect, redisStore, now, lastOp, opCount,
                       lastSet, errorRaised, healthy, items, reqCount, served, remoteFailed>>

\* the promise caller c awaits settles and the caller resumes: on the remote
\* path the client command has run (or failed), on the memory path nothing
\* is left to do
CallSettle(c) ==
    \E remote \in {"ok", "reject"} :
        LET g == getCache(TRUE, TRUE, memoryCache, redisStore, req[c].key, now, remote)
            w == setCache(TRUE, TRUE, memoryCache, redisStore, req[c].key, req[c].value,
                          req[c].ttl, now, remote)
        IN  /\ req[c].pc = "pending"
            /\ remote = "reject" => req[c].primary
            /\ IF req[c].primary /\ req[c].kind = "get"
               THEN /\ req' = [req EXCEPT ![c] = [req[c] EXCEPT !.pc = "done", !.ret = g.ret]]
                    /\ UNCHANGED redisStore
               ELSE IF req[c].primary
               THEN /\ req' = [req EXCEPT ![c] = [req[c] EXCEPT !.pc = "done"]]
                    /\ redisStore' = w.rs
               ELSE /\ req' = [req EXCEPT ![c] = [req[c] EXCEPT !.pc = "done"]]
                    /\ UNCHANGED redisStore
            /\ UNCHANGED <<redisAvailable, client, connect, memoryCache, now, lastOp, opCount,
                           lastSet, errorRaised, healthy, items, reqCount, served,
                           remoteFailed>>

NextCalls ==
    \/ ConnectResolve
    \/ ConnectReject
    \/ ClientError
    \/ Tick
    \/ \E c \in Callers, key \in CallKeys : CallGet(c, key)
    \/ \E c \in Callers, key \in CallKeys, value \in Values : CallSet(c, key, value, 1)
    \/ \E c \in Callers : CallSettle(c)

SpecCalls == InitCalls /\ [][NextCalls]_vars

\* ======================================== file utilities (utils/fileUtils.js)
\* Largest maxRetries a caller passes (the default is 3, the routes pass 2).
MaxRetries == 3

\* isRetryableError: const retryableCodes = [...]
retryableCodes == {"EBUSY", "EACCES", "ENOTEMPTY", "ETIMEDOUT", "ECONNRESET"}
\* (variant: every failure is retried)
isRetryableErrorAny(code) == TRUE
\* retryableCodes.includes(error.code); an error without a code is not in it
isRetryableError(code) == code \in retryableCodes

\* what one attempt of readJsonFile meets: the file holds a JSON array, some
\* other JSON value, text that is not JSON, or fs.readFile rejects with a code
ReadOutcomes == {"array", "object", "badJson", "ENOENT", "EIO"} \cup retryableCodes
\* what one attempt of writeJsonFile meets: mkdir and writeFile succeed, or
\* one of them rejects with a code
WriteOutcomes == {"ok", "ENOSPC", "EIO"} \cup retryableCodes

\* a call of readJsonFile or writeJsonFile: its options, the loop variable
\* attempt, the outcomes of the attempts made, and how it ended
IdleFile ==
    [kind |-> "none", pc |-> "idle", maxRetries |-> 0, validateData |-> FALSE,
     attempt |-> 0, outcomes |-> <<>>, error |-> ""]

\* one pass through the loop body of readJsonFile
readAttempt(f, outcome) ==
    LET g == [f EXCEPT !.outcomes = Append(@, outcome)]
    IN  IF outcome = "array" \/ (outcome = "object" /\ ~f.validateData)
        THEN [g EXCEPT !.pc = "returned"]
        ELSE IF outcome = "ENOENT"
        THEN [g EXCEPT !.pc = "threw", !.error = "File not found"]
        ELSE IF outcome = "badJson"
        THEN [g EXCEPT !.pc = "threw", !.error = "Invalid JSON in file"]
        ELSE IF f.attempt < f.maxRetries /\ isRetryableError(outcome)
        THEN [g EXCEPT !.pc = "delay"]
        ELSE [g EXCEPT !.pc = "threw", !.error = "Failed to read file"]

\* one pass through the loop body of writeJsonFile
writeAttempt(f, outcome) ==
    LET g == [f EXCEPT !.outcomes = Append(@, outcome)]
    IN  IF outcome = "ok"
        THEN [g EXCEPT !.pc = "returned"]
        ELSE IF outcome = "ENOSPC"
        THEN [g EXCEPT !.pc = "threw", !.error = "No space left on device"]
        ELSE IF outcome = "EACCES"
        THEN [g EXCEPT !.pc = "threw", !.error = "Permission denied"]
        ELSE IF f.attempt < f.maxRetries /\ isRetryableError(outcome)
        THEN [g EXCEPT !.pc = "delay"]
        ELSE [g EXCEPT !.pc = "threw", !.error = "Failed to write file"]

\* the module state is not touched by the file utilities
FileFrame ==
    /\ UNCHANGED <<redisAvailable, client, connect, memoryCache, redisStore, now>>
    /\ UNCHANGED cacheObs
    /\ UNCHANGED <<items, reqCount, served, remoteFailed>>

\* req holds the call of a file utility that is in progress
InitFile ==
    /\ redisAvailable = FALSE
    /\ client = FALSE /\ connect = "rejected"
    /\ memoryCache = EmptyMap
    /\ redisStore = EmptyMap
    /\ now = 0
    /\ lastOp = NoOp
    /\ opCount = 0
    /\ lastSet = [k \in StoreKeys |-> Null]
    /\ errorRaised = FALSE
    /\ healthy = NoHealthy
    /\ items = <<>>
    /\ req = [c \in {1} |-> IdleFile]
    /\ reqCount = 0
    /\ served = EmptyMap
    /\ remoteFailed = FALSE

\* readJsonFile(filePath, {maxRetries, validateData}) is called
ReadJsonFileCall ==
    \E maxRetries \in 1..MaxRetries, validateData \in BOOLEAN :
        /\ req[1].pc = "idle"
        /\ req' = [req EXCEPT ![1] =
                     [IdleFile EXCEPT !.kind = "readJsonFile", !.pc = "attempt",
                                      !.maxRetries = maxRetries,
                                      !.validateData = validateData, !.attempt = 1]]
        /\ FileFrame

\* writeJsonFile(filePath, data, {maxRetries}) is called
WriteJsonFileCall ==
    \E maxRetries \in 1..MaxRetries :
        /\ req[1].pc = "idle"
        /\ req' = [req EXCEPT ![1] =
                     [IdleFile EXCEPT !.kind = "writeJsonFile", !.pc = "attempt",
                                      !.maxRetries = maxRetries, !.attempt = 1]]
        /\ FileFrame

\* readJsonFile: try { readFile; JSON.parse; validate } catch { ... }
ReadJsonFileAttempt ==
    \E outcome \in ReadOutcomes :
        /\ req[1].kind = "readJsonFile" /\ req[1].pc = "attempt"
        /\ req[1].attempt <= req[1].maxRetries
        /\ req' = [req EXCEPT ![1] = readAttempt(req[1], outcome)]
        /\ FileFrame

\* writeJsonFile: try { mkdir; JSON.stringify; writeFile } catch { ... }
WriteJsonFileAttempt ==
    \E outcome \in WriteOutcomes :
        /\ req[1].kind = "writeJsonFile" /\ req[1].pc = "attempt"
        /\ req[1].attempt <= req[1].maxRetries
        /\ req' = [req EXCEPT ![1] = writeAttempt(req[1], outcome)]
        /\ FileFrame

\* await delay(retryDelay * attempt); continue
DelayElapsed ==
    /\ req[1].pc = "delay"
    /\ req' = [req EXCEPT ![1] = [req[1] EXCEPT !.pc = "attempt", !.attempt = @ + 1]]
    /\ FileFrame

NextFile ==
    \/ ReadJsonFileCall
    \/ WriteJsonFileCall
    \/ ReadJsonFileAttempt
    \/ WriteJsonFileAttempt
    \/ DelayElapsed

SpecFile == InitFile /\ [][NextFile]_vars

\* ===================================================================== claims
\* a step in which a caller awaited the cache operation op
OpStep(op) == opCount' # opCount /\ lastOp'.op = op
\* the literal prefix of a wildcard key
Prefix(key) == SliceOffLast(key)

\* C3 -- TTL expiry on the memory tier: after a memory-tier set(k, v, t) with
\* no later set, invalidate or clear touching k, a memory-tier get(k) returns
\* v while fewer than t seconds have elapsed since the set and absent once t
\* seconds have elapsed.
C3_TtlExpiry ==
    [][ (OpStep("get") /\ ~lastOp'.primary /\ lastSet[lastOp'.key] # Null) =>
          LET s == lastSet[lastOp'.key]
          IN  lastOp'.ret = IF now - s.at < s.ttl * 1000 THEN s.value ELSE Null ]_vars

\* C3 witness: a memory-tier get of a key whose set is t or more seconds old
\* came back absent (and deleted the entry), with time having advanced.
C3_Witness ==
    /\ lastOp.op = "get" /\ ~lastOp.primary
    /\ lastSet[lastOp.key] # Null
    /\ now - lastSet[lastOp.key].at >= lastSet[lastOp.key].ttl * 1000
    /\ lastOp.ret = Null
    /\ lastOp.key \notin DOMAIN memoryCache

\* C4 (as claimed) -- wildcard invalidation scope: invalidate(p*) removes from
\* the active tier exactly the entries whose key starts with the literal
\* string p and leaves every other entry in place.
C4_WildcardScope ==
    [][ (OpStep("invalidate") /\ EndsWithStar(lastOp'.key) /\ lastOp'.remote = "ok") =>
          LET p == Prefix(lastOp'.key)
          IN  IF lastOp'.primary
              THEN redisStore' = MapDel(redisStore, {k \in DOMAIN redisStore : StartsWith(k, p)})
              ELSE memoryCache' = MapDel(memoryCache, {k \in DOMAIN memoryCache : StartsWith(k, p)}) ]_vars

\* C5 (as claimed) -- wildcard invalidation purges both tiers: after
\* invalidate(p*) has returned, neither the remote store nor the in-process
\* map holds an entry whose key starts with p.
C5_PurgesBothTiers ==
    [][ (OpStep("invalidate") /\ EndsWithStar(lastOp'.key) /\ lastOp'.remote = "ok") =>
          \A k \in (DOMAIN redisStore') \cup (DOMAIN memoryCache') :
              ~StartsWith(k, Prefix(lastOp'.key)) ]_vars

\* C6 (as claimed) -- write fallback: when the primary is available and the
\* remote write of set(key, value, ttl) fails, the entry is in the in-process
\* map with expiry now + ttl*1000 when set returns.
C6_WriteFallback ==
    [][ \A key \in TtlKeys, value \in Values, ttl \in TTLs :
          (redisAvailable /\ client /\ Set(key, value, ttl, "reject")) =>
              /\ key \in DOMAIN memoryCache'
              /\ memoryCache'[key] = [value |-> value, expiry |-> now + ttl * 1000] ]_vars

C8_FailuresAbsorbed ==
    (lastOp.op # "none" /\ lastOp.remote # "ok") =>
        (~lastOp.threw /\ lastOp.ret = Null)

\* C8 witness: a set whose remote write failed has returned to its caller.
C8_Witness ==
    lastOp.op = "set" /\ lastOp.primary /\ lastOp.remote = "reject" /\ ~lastOp.threw

\* C9 (as claimed) -- no reconnection: once the client has raised a
\* connection-level error, also while the initial connection attempt is still
\* pending, primary-available is false in every later state.
C9_NoReconnection == errorRaised => ~redisAvailable

\* C10 (as claimed) -- fallback transparency: for the same calls at the same
\* times, every get answered by the memory tier (primary unavailable
\* throughout) returns what the get answered by a healthy primary returns.
C10_FallbackTransparency ==
    lastOp.op = "get" => lastOp.ret = healthy.ret

\* a listing request is received: its cache lookup has run
ListReceived == reqCount' # reqCount /\ req'[1].kind = "list"
\* the response stored by the last miss on the URL of the request received
Stored == served[req'[1].query.url]
\* a request that found the entry answers with it and reads nothing
HitAnswersStored ==
    (req[1].kind = "list" /\ req[1].pc = "awaitGet" /\ req[1].cached # Null
        /\ req'[1] # req[1])
    => /\ req'[1].pc = "done" /\ req'[1].status = 200
       /\ req'[1].body = req[1].cached
       /\ req'[1].reads = 0

\* C1: for requests handled one after another, a successful listing returns
\* the listing of the collection as the last successful mutation left it,
\* never a response cached before that mutation, whichever tier held the
\* entry and whatever the primary-available flag did in between (here even
\* restricted to runs in which no call on the remote tier failed).
C1_InvalidationOnMutation ==
    (~remoteFailed /\ req[1].kind = "list" /\ req[1].pc = "done" /\ req[1].status = 200)
    => req[1].body.items = ListResult(items, req[1].query, 0).body.items

Mutations == {"create", "update", "delete"}
Succeeded(rec) == rec.pc = "done" /\ rec.status \in {200, 201}

\* C11: a create, update or delete request that has answered with success
\* has, in this order, loaded the collection, completed the write of the
\* collection, and then completed invalidate("items::*"); the response
\* comes after all three.
C11_MutationOrdering ==
    \A r \in DOMAIN req :
        (req[r].kind \in Mutations /\ Succeeded(req[r]))
        => req[r].io = <<"read", "write", "invalidate">>

\* a create has answered 201 after its write and its invalidation
C11_Witness ==
    \E r \in DOMAIN req :
        /\ req[r].kind = "create" /\ req[r].pc = "done" /\ req[r].status = 201
        /\ req[r].io = <<"read", "write", "invalidate">>
        /\ \E i \in 1..Len(items) : items[i] = req[r].body

\* the listing of the current collection for the query of a request
Fresh(rec) == ListResult(items, rec.query, 0).body.items
\* the remote tier has never been in use
MemoryOnly == ~redisAvailable /\ ~errorRaised /\ ~remoteFailed

\* C12: no lock orders a listing request after a concurrent mutation: a
\* listing request that has loaded the collection can always go on to write
\* its cache entry, whatever a mutation has persisted or invalidated since
\* the load.
C12_NoLock ==
    \A r \in DOMAIN req :
        (req[r].kind = "list" /\ req[r].pc = "awaitRead") => ENABLED ListCompute(r)

\* the interleaving of the claim, on the memory tier alone: a create has
\* answered with success, the cache entry written after its invalidation
\* holds the listing loaded before its write, and a later identical listing
\* request has been answered from that entry without a store read
C12_Witness ==
    \E r, m \in DOMAIN req :
        /\ MemoryOnly /\ NoneInFlight
        /\ req[m].kind = "create" /\ Succeeded(req[m])
        /\ req[r].kind = "list" /\ req[r].pc = "done" /\ req[r].status = 200
        /\ req[r].reads = 0
        /\ MemLive(memoryCache, CacheKey(req[r].query.url), now)
        /\ memoryCache[CacheKey(req[r].query.url)].value = req[r].body
        /\ served[req[r].query.url] # Null
        /\ req[r].body = served[req[r].query.url].body
        /\ req[r].body.items # Fresh(req[r])
        /\ \A i \in 1..Len(req[r].body.items) : req[r].body.items[i] # req[m].body

\* request r is received as a listing request and its lookup finds an entry
\* in the in-process map
MemoryHit(r) ==
    /\ req'[r] # req[r] /\ req'[r].kind = "list" /\ req'[r].pc = "awaitGet"
    /\ req'[r].cached # Null
    /\ ~Primary
\* request r, having found an entry, answers
HitResponse(r) ==
    /\ req[r].kind = "list" /\ req[r].pc = "awaitGet" /\ req[r].cached # Null
    /\ req'[r].pc = "done"

\* C13: a response taken from an entry of the memory tier is taken less
\* than TTL (60) seconds after the entry was written (the entry carries the
\* time of its write as its timestamp), and neither the lookup that finds
\* the entry nor the response rewrites an entry or moves an expiry; so an
\* entry with pre-mutation data is served for less than TTL seconds.
C13_StalenessBounded ==
    [][\A r \in DOMAIN req :
          /\ MemoryHit(r) =>
                /\ now < req'[r].cached.timestamp + CACHE_TTL * 1000
                /\ memoryCache' = memoryCache /\ redisStore' = redisStore
          /\ HitResponse(r) =>
                /\ memoryCache' = memoryCache /\ redisStore' = redisStore]_vars

\* a lookup on the memory tier has found, some time after its write, an
\* entry that lacks an item the store holds
C13_Witness ==
    \E r \in DOMAIN req :
        /\ req[r].kind = "list" /\ req[r].pc = "awaitGet" /\ req[r].cached # Null
        /\ ~Primary
        /\ MemLive(memoryCache, CacheKey(req[r].query.url), now)
        /\ memoryCache[CacheKey(req[r].query.url)].value = req[r].cached
        /\ req[r].cached.timestamp < now
        /\ req[r].cached.items # Fresh(req[r])

\* a listing request that has loaded the collection from the store
Loaded(rec) ==
    /\ rec.kind = "list" /\ rec.reads > 0
    /\ ~(rec.pc = "done" /\ rec.status \in {404, 500})
\* one TTL window on a working tier with no invalidation: the memory tier
\* has been the tier in use since the start, the first window has not ended
\* and no mutation has persisted (a create always changes the collection)
OneQuietWindow ==
    MemoryOnly /\ now < CACHE_TTL * 1000 /\ items \in SequentialCollections

Malformed(limit) == limit # <<>> /\ (parseInt(limit).nan \/ parseInt(limit).n < 1)

\* C15: in every state of the cache and of the store, a listing request
\* with a malformed limit is answered 400 INVALID_LIMIT, and a listing
\* request is answered 400 only for a malformed limit.
C15_LimitValidation ==
    \A r \in DOMAIN req :
        (req[r].kind = "list" /\ req[r].pc = "done")
        => /\ Malformed(req[r].query.limit)
                => req[r].status = 400 /\ req[r].body = [error |-> "INVALID_LIMIT"]
           /\ req[r].status = 400 => Malformed(req[r].query.limit)

\* C16: a listing request with a malformed limit performs no cache get, no
\* cache set and no store read, at any point of its handling.
C16_ValidationBeforeIO ==
    \A r \in DOMAIN req :
        (req[r].kind = "list" /\ Malformed(req[r].query.limit))
        => req[r].io = <<>> /\ req[r].reads = 0

\* str contains sub, letter case ignored
ContainsNoCase(str, sub) ==
    \E i \in 1..(Len(str) - Len(sub) + 1) :
        \A j \in 1..Len(sub) : LowerChar(str[i + j - 1]) = LowerChar(sub[j])
\* the listing the claim describes for search term term and limit n (0: none)
Described(data, term, n) ==
    LET hit(item) == \/ ContainsNoCase(item.name, term)
                     \/ (item.category # <<>> /\ ContainsNoCase(item.category, term))
        matches == IF term = <<>> THEN data ELSE SelectSeq(data, hit)
    IN  IF n = 0 \/ n >= Len(matches) THEN matches
        ELSE [i \in 1..n |-> matches[i]]
\* a listing request answered from the store, with a limit that is absent or
\* the decimal numeral of an integer of at least 1
MissAnswered(rec) ==
    /\ rec.kind = "list" /\ rec.pc = "done" /\ rec.status = 200 /\ rec.reads = 1
    /\ ~Malformed(rec.query.limit)
LimitOf(rec) == IF rec.query.limit = <<>> THEN 0 ELSE parseInt(rec.query.limit).n

\* C17 as stated: on a miss the items returned are, in store order, the
\* first limit items among those whose name or non-null category contains
\* q, letter case ignored (all items when q is absent or empty), and total
\* is their number.
C17_ListingResult ==
    \A r \in DOMAIN req :
        MissAnswered(req[r])
        => /\ req[r].body.items = Described(items, req[r].query.q, LimitOf(req[r]))
           /\ req[r].body.total = Len(req[r].body.items)

\* C17, amended: the same with the search term taken without its leading
\* and trailing white space; a term of white space only selects all items.
C17_ListingResultTrimmed ==
    \A r \in DOMAIN req :
        MissAnswered(req[r])
        => /\ req[r].body.items = Described(items, trim(req[r].query.q), LimitOf(req[r]))
           /\ req[r].body.total = Len(req[r].body.items)

\* a miss answered with a filtered and truncated listing: some items do not
\* match, and more match than the limit lets through
C17_Witness ==
    \E r \in DOMAIN req :
        /\ MissAnswered(req[r])
        /\ req[r].query.q # <<>> /\ req[r].query.limit # <<>>
        /\ req[r].body.total = LimitOf(req[r])
        /\ Len(Described(items, trim(req[r].query.q), 0)) > LimitOf(req[r])
        /\ Len(Described(items, trim(req[r].query.q), 0)) < Len(items)

\* request r, a listing request, gets its answer in this step
ListAnswer(r) == req'[r] # req[r] /\ req'[r].kind = "list" /\ req'[r].pc = "done"
Last(seq) == seq[Len(seq)]

MutationRefused(r) ==
    /\ req'[r] # req[r] /\ req'[r].kind \in Mutations /\ req'[r].pc = "done"
    /\ req'[r].status \notin {200, 201}
RejectionCodes ==
    {"INVALID_ITEM_DATA", "MISSING_NAME", "INVALID_ID", "INVALID_UPDATE_DATA", "ITEM_NOT_FOUND"}

\* C19: a mutation request answered 400 (INVALID_ITEM_DATA, MISSING_NAME,
\* INVALID_ID, INVALID_UPDATE_DATA) or 404 ITEM_NOT_FOUND has written
\* nothing to the store and has invalidated nothing; a mutation whose store
\* write fails is answered 500 DATA_WRITE_ERROR and invalidates nothing.
\* In both cases both cache tiers are as they were.
C19_RefusedMutations ==
    [][\A r \in DOMAIN req :
          MutationRefused(r)
          => /\ memoryCache' = memoryCache /\ redisStore' = redisStore
             /\ \A i \in 1..Len(req'[r].io) : req'[r].io[i] \notin {"write", "invalidate"}
             /\ req'[r].body.error \in RejectionCodes
                   => /\ items' = items
                      /\ req'[r].status = IF req'[r].body.error = "ITEM_NOT_FOUND"
                                          THEN 404 ELSE 400
                      /\ \A i \in 1..Len(req'[r].io) : req'[r].io[i] # "writeFailed"
             /\ (Len(req'[r].io) > 0 /\ Last(req'[r].io) = "writeFailed")
                   => /\ req'[r].status = 500
                      /\ req'[r].body = [error |-> "DATA_WRITE_ERROR"]]_vars

\* an update with an empty body has been answered 400 while a tier of the
\* cache holds a listing entry
C19_Witness ==
    /\ req[1].kind = "update" /\ req[1].pc = "done" /\ req[1].status = 400
    /\ req[1].body = [error |-> "INVALID_UPDATE_DATA"]
    /\ req[1].io = <<>>
    /\ \/ MemMatching(memoryCache, ItemsNamespace) # {}
       \/ \E k \in DOMAIN redisStore : StartsWith(k, ItemsNamespace)

\* C20: every successful listing response carries, besides items and
\* total, a field filtered (the number of items matching the search, the
\* collection size without a search) and a field hasMore (true when a limit
\* was given and fewer items were returned than the collection holds, false
\* without a limit).
C20_ListingMetadata ==
    \A r \in DOMAIN req :
        (req[r].kind = "list" /\ req[r].pc = "done" /\ req[r].status = 200)
        => /\ {"items", "total", "filtered", "hasMore"} \subseteq DOMAIN req[r].body
           /\ req[r].query.limit = <<>> => req[r].body.hasMore = FALSE
           /\ req[r].query.q = <<>> /\ req[r].reads = 1
                 => req[r].body.filtered = Len(items)

\* the entries of the in-process map other than that of key are as they were
OthersKept(key) ==
    /\ DOMAIN memoryCache' \ {key} = DOMAIN memoryCache \ {key}
    /\ \A k \in DOMAIN memoryCache \ {key} : memoryCache'[k] = memoryCache[k]

\* C21: on the memory tier, get(k) on an entry whose expiry has passed
\* removes exactly that entry and returns absent, and get(k) on a live entry
\* changes nothing; no get changes an entry other than that of k; and an
\* entry leaves the map only through a get that finds it expired, an
\* invalidate or a clear: the passing of time alone removes nothing.
C21_LazyDeletion ==
    [][ /\ (OpStep("get") /\ ~lastOp'.primary) =>
              IF MemLive(memoryCache, lastOp'.key, now)
              THEN memoryCache' = memoryCache /\ lastOp'.ret = memoryCache[lastOp'.key].value
              ELSE /\ memoryCache' = MapDel(memoryCache, {lastOp'.key})
                   /\ lastOp'.ret = Null
        /\ OpStep("get") => OthersKept(lastOp'.key)
        /\ (\E k \in DOMAIN memoryCache : k \notin DOMAIN memoryCache') =>
              /\ OpStep("get") \/ OpStep("invalidate") \/ OpStep("clear")
              /\ ~lastOp'.primary
              /\ OpStep("get") =>
                    /\ DOMAIN memoryCache \ DOMAIN memoryCache' = {lastOp'.key}
                    /\ memoryCache[lastOp'.key].expiry <= now ]_vars

\* a memory-tier get has found its entry expired and removed it, while
\* another entry whose expiry has passed as well is still in the map
C21_Witness ==
    /\ lastOp.op = "get" /\ ~lastOp.primary /\ lastOp.ret = Null
    /\ lastSet[lastOp.key] # Null
    /\ lastOp.key \notin DOMAIN memoryCache
    /\ \E k \in DOMAIN memoryCache : memoryCache[k].expiry <= now

\* the latest memory-tier set of key k is still within its TTL
SetLive(k) == lastSet[k] # Null /\ now < lastSet[k].at + lastSet[k].ttl * 1000
\* caller c makes a getCache call that takes the memory path
MemoryGetCall(c) ==
    /\ req[c].pc # "pending" /\ req'[c].pc = "pending" /\ req'[c].kind = "get"
    /\ ~req'[c].primary

\* C22: with get and set calls on the same key overlapping in any way, a
\* call on the memory tier does its flag check, its read of the entry and
\* its change of the map in the step in which it is made, and nothing when
\* its caller resumes: the result of a get is decided by the entry as it is
\* at the call, the entry of a set that is within its TTL is in the map
\* (no get that found an older entry expired removes it), and a get on an
\* expired or absent entry returns absent, also next to another such get.
C22_AtomicMemoryOps ==
    [][ /\ \A k \in CallKeys :
              SetLive(k)' => /\ k \in DOMAIN memoryCache'
                             /\ memoryCache'[k].value = lastSet'[k].value
        /\ \A c \in Callers :
              /\ MemoryGetCall(c) =>
                    /\ req'[c].ret = IF SetLive(req'[c].key)
                                     THEN lastSet[req'[c].key].value ELSE Null
                    /\ ~SetLive(req'[c].key) => req'[c].key \notin DOMAIN memoryCache'
              /\ (req[c].pc = "pending" /\ req'[c].pc = "done")
                    => /\ memoryCache' = memoryCache
                       /\ ~req[c].primary => req'[c].ret = req[c].ret ]_vars

\* two gets of the same key, made after the TTL of its entry had run out,
\* overlap, and both return absent
C22_Witness ==
    /\ req[1].kind = "get" /\ req[2].kind = "get"
    /\ req[1].key = req[2].key
    /\ ~req[1].primary /\ ~req[2].primary
    /\ req[1].ret = Null /\ req[2].ret = Null
    /\ req[1].pc = "pending" /\ req[2].pc = "pending"
    /\ lastSet[req[1].key] # Null
    /\ \A c \in Callers :
          req[c].at >= lastSet[req[1].key].at + lastSet[req[1].key].ttl * 1000
    /\ req[1].key \notin DOMAIN memoryCache

\* the remote command(s) of the latest operation went through
RemoteDone == lastOp'.remote \notin {"reject", "delReject"}

Did(rec, e) == \E i \in 1..Len(rec.io) : rec.io[i] = e
\* the validation a mutation request fails before any I/O
Rejected(rec) ==
    CASE rec.kind = "create" -> CreateInvalid(rec.input) # ""
      [] rec.kind = "update" -> IdInvalid(rec.id) \/ DOMAIN rec.input = {}
      [] rec.kind = "delete" -> IdInvalid(rec.id)
      [] OTHER -> FALSE
\* the status an answered request gets from its input and from the outcomes
\* of its store calls alone
StoreStatus(rec) ==
    IF Did(rec, "readAbsent") THEN 404
    ELSE IF Did(rec, "readFailed") \/ Did(rec, "writeFailed") THEN 500
    ELSE IF rec.kind = "list" THEN (IF Malformed(rec.query.limit) THEN 400 ELSE 200)
    ELSE IF Rejected(rec) THEN 400
    ELSE IF ~Did(rec, "write") THEN 404
    ELSE IF rec.kind = "create" THEN 201 ELSE 200

\* C24: when every call a handler awaits settles, every listing or mutation
\* request is answered, and once: no handler is left unanswered by a failed
\* cache call, a request that has answered takes no further step, and a
\* request in flight is eventually answered.  A request not served from the
\* cache is answered with the status its input and its store calls give it,
\* whatever its calls on the remote cache did.
C24_AnsweredOnce ==
    /\ [](\A r \in DOMAIN req :
             /\ req[r].pc # "crashed"
             /\ (req[r].pc = "done" /\ (req[r].kind \in Mutations \/ req[r].reads > 0))
                   => req[r].status = StoreStatus(req[r]))
    /\ [][\A r \in DOMAIN req :
             (req[r].pc = "done" /\ req'[r] # req[r]) => reqCount' = reqCount + 1]_vars
    /\ \A r \in {1} : (req[r].pc \notin {"idle", "done"}) ~> (req[r].pc = "done")

\* the only request so far, a create, was answered 201 although a command it
\* sent to the remote cache failed
C24_Witness ==
    /\ reqCount = 1 /\ remoteFailed
    /\ req[1].kind = "create" /\ req[1].pc = "done" /\ req[1].status = 201
    /\ req[1].io = <<"read", "write", "invalidate">>

\* the codes the claims list as retryable
TransientCodes == {"EBUSY", "EACCES", "ENOTEMPTY", "ETIMEDOUT", "ECONNRESET"}
Ended(f) == f.pc \in {"returned", "threw"}

C26_WriteRetry ==
    LET f == req[1]
        n == Len(f.outcomes)
    IN  f.kind = "writeJsonFile" =>
          /\ (Ended(f) /\ f.outcomes[n] \in TransientCodes) => n = f.maxRetries
          /\ (n > 0 /\ f.outcomes[n] = "ok") => f.pc = "returned"

\* a caller awaited some cache operation in this step
AnyOpStep == opCount' # opCount
\* the latest operation had a remote call fail
OpFailed(op) == op.op # "none" /\ op.remote # "ok"

Removed(op, k) ==
    /\ op.op \in {"invalidate", "clear"}
    /\ op.remote = "ok"
    /\ \/ op.op = "clear"
       \/ op.op = "invalidate" /\ op.key = k
       \/ op.op = "invalidate" /\ EndsWithStar(op.key)
             /\ StartsWith(k, Prefix(op.key)) /\ GlobMatch(op.key, k)

\* C28: after an invalidate covering k or a clear has returned, a get(k)
\* with no set in between returns absent, whatever primary-available did
\* before, between or after the two calls; so no get returns a value that
\* was set before the removal.
C28_RemovalSticks ==
    [][ (OpStep("get") /\ Removed(lastOp, lastOp'.key)) => lastOp'.ret = Null ]_vars

\* C29: however create requests overlap, once no request is in flight every
\* item whose creation was answered 201 is in the store (no delete request
\* is made in these runs).
C29_NoLostCreate ==
    NoneInFlight =>
        \A r \in DOMAIN req :
            (req[r].kind = "create" /\ req[r].status = 201)
            => \E i \in 1..Len(items) : items[i] = req[r].body

\* the collection as request r persists it in this step
Persists(r) == req[r].pc = "awaitRead" /\ req'[r].pc = "awaitWrite"

\* C30: with mutations executed one after another on a collection whose
\* ids are pairwise distinct, the ids in the store stay pairwise distinct; a
\* create gives its item an id greater than every id in the collection; an
\* update leaves the id of every item, the updated one included, as it was,
\* whatever the request body holds.
C30_UniqueIds ==
    [][ /\ \A i, j \in 1..Len(items') : i # j => items'[i].id # items'[j].id
        /\ (Persists(1) /\ req[1].kind = "create") =>
              /\ Len(items') = Len(items) + 1
              /\ \A i \in 1..Len(items) : items'[Len(items')].id > items[i].id
        /\ (Persists(1) /\ req[1].kind = "update") =>
              /\ Len(items') = Len(items)
              /\ \A i \in 1..Len(items) : items'[i].id = items[i].id ]_vars

====
